---- MODULE Spec2Model ----
(***************************************************************************)
(* py-omada: the OmadaAPI client (src/pyomada/pyomada.py) and the batch    *)
(* radio/LED toggler (src/pyomada/enable_radios.py).                       *)
(*                                                                         *)
(* The state is the OmadaAPI object's token, the wall clock and time zone  *)
(* of the host, the last HTTP request/response pair exchanged with the     *)
(* controller, the outcome of the last API method, the last log record,    *)
(* and the locals of enable_radios.main().  The controller and the network *)
(* are the environment: every method draws its HTTP outcome from a finite  *)
(* set of responses (transport failure, non-JSON body, JSON envelope).     *)
(*                                                                         *)
(* Python values are encoded with one TLA+ type per record field, an       *)
(* optional value x as <<>> (None) or <<x>>, and a dict as the sequence of *)
(* its (key, value) pairs in insertion order.                              *)
(***************************************************************************)
EXTENDS Integers, Sequences, FiniteSets, TLC

VARIABLES
    token,      \* self.token
    issued,     \* controller side: the token of the latest login response that carried one
    now,        \* true epoch time of the host clock, in milliseconds since StartMs' origin
    tz,         \* UTC offset of the host's local time zone, in milliseconds
    lastReq,    \* the HTTP request built by the last makeApiCall
    lastResp,   \* what the HTTP layer answered to it
    ret,        \* outcome of the last API method: returned value or raised exception
    logged,     \* the last record handed to the logging module
    pc,         \* "idle": library use; otherwise the position inside enable_radios.main()
    args,       \* main(): parsed command line (disable, noleds)
    devices,    \* main(): rows of the DataFrame returned by get_devices()
    i,          \* main(): index of the row the loop is at
    calls,      \* main(): the mutation requests issued so far, in order
    mainExc     \* main(): the exception that escaped main(), if any

vars == <<token, issued, now, tz, lastReq, lastResp, ret, logged,
          pc, args, devices, i, calls, mainExc>>

apiVars == <<token, issued, lastReq, lastResp, ret>>
mainVars == <<pc, args, devices, i, calls, mainExc>>

(***************************************************************************)
(* Bounds                                                                  *)
(***************************************************************************)
MaxTicks == 1       \* how many times the clock advances in one run
MaxDevices == 2     \* longest device list the controller returns

(***************************************************************************)
(* Values                                                                  *)
(***************************************************************************)
NoneVal == "None"
Absent == "<absent>"
NaN == "nan"

Tokens == {"tokA", "tokB"}
Statuses == {200, 401}
Envelopes == {<<0, "Success.">>, <<-1, "General error.">>}
Macs == {"AA:BB"}
SiteKeys == {NoneVal, "Office"}
LedStatuses == {0, 1, 2}

HourMs == 3600 * 1000
TzOffsets == {0, HourMs}
StartMs == 2 * HourMs

Nothing == <<>>
Some(x) == <<x>>

\* the configured site, self.site
site == "Default"
\* self.baseurl and self.base_api_path
baseurl == "https://omadacontroller.local:8043"
base_api_path == "/api/v2"

\* the "result" member of a response envelope
Result(shape, tok, rows) == [shape |-> shape, token |-> tok, rows |-> rows]
NoResult == Result("absent", Absent, <<>>)
NullResult == Result("null", Absent, <<>>)
ObjectResult == Result("object", Absent, <<>>)
TokenResult(t) == Result("object", t, <<>>)
ListResult(rows) == Result("list", Absent, rows)

\* what the HTTP layer produces for one request
Resp(kind, status, env, result) ==
    [kind |-> kind, status |-> status, errorCode |-> env[1], msg |-> env[2],
     result |-> result]
NoResponse == Resp("neterr", 0, <<0, "">>, NoResult)
NonJson(s) == Resp("nonjson", s, <<0, "">>, NoResult)
Json(s, e, r) == Resp("json", s, e, r)

HasToken(resp) ==
    /\ resp.kind = "json"
    /\ resp.result.shape = "object"
    /\ resp.result.token # Absent

\* Python values handed back to the caller
PyVal(type, s, b, resp) == [type |-> type, str |-> s, bool |-> b, resp |-> resp]
PyNone == PyVal("NoneType", NoneVal, FALSE, NoResponse)
PyStr(s) == PyVal("str", s, FALSE, NoResponse)
PyBool(b) == PyVal("bool", "", b, NoResponse)
PyJson(resp) == PyVal("json", "", FALSE, resp)
PyResponse(resp) == PyVal("Response", "", FALSE, resp)
PyFrame(rows) == PyVal("DataFrame", "", FALSE, Json(200, <<0, "">>, ListResult(rows)))

Return(v) == [kind |-> "return", exc |-> NoneVal, value |-> v]
Raise(e) == [kind |-> "raise", exc |-> e, value |-> PyNone]
NoRet == [op |-> "none", kind |-> "none", exc |-> NoneVal, value |-> PyNone]
Outcome(op, out) == [op |-> op, kind |-> out.kind, exc |-> out.exc, value |-> out.value]

NoReq == [op |-> "none", mode |-> "", url |-> <<>>, params |-> <<>>,
          json |-> Nothing, at |-> 0]
NoLog == [level |-> "none", msg |-> <<>>]

\* the device records the controller may list; a record may lack a key
Device(mac, name) == [mac |-> mac, name |-> name]
DeviceRecords ==
    {Device("AA:BB", "EAP1"), Device("CC:DD", "EAP2"),
     Device(Absent, "EAP1"), Device("AA:BB", Absent)}

RECURSIVE SeqsUpTo(_, _)
SeqsUpTo(S, n) ==
    IF n = 0 THEN {<<>>}
    ELSE LET shorter == SeqsUpTo(S, n - 1)
         IN  shorter \cup {Append(s, x) : s \in {t \in shorter : Len(t) = n - 1}, x \in S}

(***************************************************************************)
(* Request machinery                                                       *)
(***************************************************************************)

\* get_timestamp(): datetime.utcnow() reads the UTC wall clock as a naive
\* datetime; .timestamp() then takes that naive value for local time, so the
\* result is the epoch time shifted by the zone's UTC offset; int(.. * 1000)
\* truncates to whole milliseconds (the clock is kept in milliseconds).
get_timestamp == now - tz

path_to_url(path) == <<baseurl, base_api_path>> \o path

\* EndpointParams with the token read as if it were never stored
EndpointParamsNoToken(include_token) ==
    IF include_token
    THEN << <<"token", NoneVal>>, <<"_", get_timestamp>> >>
    ELSE << >>

\* EndpointParams without the cache-busting timestamp
EndpointParamsNoTimestamp(include_token) ==
    IF include_token
    THEN << <<"token", token>> >>
    ELSE << >>

\* the query parameters makeApiCall ends up with (endpoint_params is always
\* None at the call sites, hence a fresh dict)
EndpointParams(include_token) ==
    IF include_token
    THEN << <<"token", token>>, <<"_", get_timestamp>> >>
    ELSE << >>

HasParam(req, key) == \E k \in DOMAIN req.params : req.params[k][1] = key
Param(req, key) ==
    req.params[CHOOSE k \in DOMAIN req.params : req.params[k][1] = key][2]

\* the request handed to session.get / session.post / session.patch
Request(op, path, mode, json, include_token) ==
    [op |-> op, mode |-> mode, url |-> path_to_url(path),
     params |-> EndpointParams(include_token), json |-> json, at |-> now]

\* makeApiCall inspecting the envelope: a non-zero errorCode raises
makeApiCallChecked(mode, serialize_result, resp) ==
    IF mode \notin {"GET", "POST", "PATCH"} THEN Raise("ValueError")
    ELSE IF resp.kind = "neterr" THEN Raise("ConnectionError")
    ELSE IF serialize_result
         THEN IF resp.kind = "nonjson" THEN Raise("JSONDecodeError")
              ELSE IF resp.errorCode # 0 THEN Raise("ServerLogicError")
              ELSE Return(PyJson(resp))
         ELSE Return(PyResponse(resp))

\* makeApiCall's result for the HTTP outcome resp: the session call raises on
\* a transport failure; with serialize_result the body is parsed
\* (data.json()) and the whole parsed document is returned, whatever the
\* HTTP status and the envelope's errorCode and msg; otherwise the Response
\* object itself is returned.
makeApiCall(mode, serialize_result, resp) ==
    IF mode \notin {"GET", "POST", "PATCH"} THEN Raise("ValueError")
    ELSE IF resp.kind = "neterr" THEN Raise("ConnectionError")
    ELSE IF serialize_result
         THEN IF resp.kind = "nonjson" THEN Raise("JSONDecodeError")
              ELSE Return(PyJson(resp))
         ELSE Return(PyResponse(resp))

\* Subscript2 with dict.get-style lookups, which never raise
Subscript2Get(resp, present) == Return(PyJson(resp))

\* result["result"][key] on a parsed envelope, as Python evaluates it
Subscript2(resp, present) ==
    CASE resp.result.shape = "absent" -> Raise("KeyError")
      [] resp.result.shape = "null" -> Raise("TypeError")
      [] resp.result.shape = "list" -> Raise("TypeError")
      [] OTHER -> IF present THEN Return(PyJson(resp)) ELSE Raise("KeyError")

(***************************************************************************)
(* OmadaAPI methods                                                        *)
(***************************************************************************)
Credentials == [username |-> "admin", password |-> "secret"]

\* the bookkeeping every method shares: the request went out, resp came back,
\* the method ended with out
Exchange(op, req, resp, out) ==
    /\ lastReq' = req
    /\ lastResp' = resp
    /\ ret' = Outcome(op, out)

LoginOutcome(resp) ==
    LET r == makeApiCall("POST", TRUE, resp)
    IN  IF r.kind = "raise" THEN r
        ELSE LET t == Subscript2(resp, resp.result.token # Absent)
             IN  IF t.kind = "raise" THEN t ELSE Return(PyStr(resp.result.token))

\* login resetting the token when the call fails
LoginClearsOnFailure(resp) ==
    LET out == LoginOutcome(resp)
    IN  /\ Exchange("login", Request("login", <<"/login">>, "POST",
                                     Some(Credentials), FALSE), resp, out)
        /\ token' = IF out.kind = "return" THEN out.value.str ELSE NoneVal
        /\ issued' = IF HasToken(resp) THEN resp.result.token ELSE issued

login(resp) ==
    LET out == LoginOutcome(resp)
    IN  /\ Exchange("login", Request("login", <<"/login">>, "POST",
                                     Some(Credentials), FALSE), resp, out)
        /\ token' = IF out.kind = "return" THEN out.value.str ELSE token
        /\ issued' = IF HasToken(resp) THEN resp.result.token ELSE issued

LogoutLog(status_code) ==
    IF status_code = 200
    THEN [level |-> "info", msg |-> <<"logged out">>]
    ELSE [level |-> "warning", msg |-> <<"logout failed with status code">>]

\* logout dropping the stored token
LogoutClearsToken(resp) ==
    LET r == makeApiCall("POST", FALSE, resp)
    IN  /\ Exchange("logout", Request("logout", <<"/logout">>, "POST", Nothing, FALSE),
                    resp, IF r.kind = "raise" THEN r ELSE Return(PyNone))
        /\ logged' = IF r.kind = "raise" THEN logged ELSE LogoutLog(resp.status)
        /\ token' = NoneVal
        /\ UNCHANGED issued

\* logout raising on a status other than 200
LogoutRaisesOnStatus(resp) ==
    LET r == makeApiCall("POST", FALSE, resp)
    IN  /\ Exchange("logout", Request("logout", <<"/logout">>, "POST", Nothing, FALSE),
                    resp, IF r.kind = "raise" THEN r
                          ELSE IF resp.status = 200 THEN Return(PyNone)
                          ELSE Raise("HTTPError"))
        /\ logged' = IF r.kind = "raise" \/ resp.status # 200 THEN logged
                     ELSE LogoutLog(resp.status)
        /\ UNCHANGED <<token, issued>>

logout(resp) ==
    LET r == makeApiCall("POST", FALSE, resp)
    IN  /\ Exchange("logout", Request("logout", <<"/logout">>, "POST", Nothing, FALSE),
                    resp, IF r.kind = "raise" THEN r ELSE Return(PyNone))
        /\ logged' = IF r.kind = "raise" THEN logged ELSE LogoutLog(resp.status)
        /\ UNCHANGED <<token, issued>>

\* is_logged taking any response for a logged-in session
IsLoggedOutcomeAnyStatus(resp) ==
    LET r == makeApiCall("GET", FALSE, resp)
    IN  IF r.kind = "raise" THEN r ELSE Return(PyBool(TRUE))

IsLoggedOutcome(resp) ==
    LET r == makeApiCall("GET", FALSE, resp)
    IN  IF r.kind = "raise" THEN r
        ELSE IF resp.status = 200 THEN Return(PyBool(TRUE)) ELSE Return(PyBool(FALSE))

is_logged(resp) ==
    /\ Exchange("is_logged", Request("is_logged", <<"/loginStatus">>, "GET", Nothing, TRUE),
                resp, IsLoggedOutcome(resp))
    /\ UNCHANGED <<token, issued>>

\* site_key defaults to self.site
SiteOf(site_key) == IF site_key = NoneVal THEN site ELSE site_key

\* a GET whose JSON result is reshaped for the caller; nested tells whether
\* the method reads result["result"]["data"] or result["result"]
GetOutcome(nested, resp) ==
    LET r == makeApiCall("GET", TRUE, resp)
    IN  IF r.kind = "raise" THEN r
        ELSE IF nested THEN Subscript2(resp, TRUE)
        ELSE IF resp.result.shape = "absent" THEN Raise("KeyError")
        ELSE Return(PyJson(resp))

Get(op, path, nested, resp) ==
    /\ Exchange(op, Request(op, path, "GET", Nothing, TRUE), resp, GetOutcome(nested, resp))
    /\ UNCHANGED <<token, issued>>

get_admins(resp) == Get("get_admins", <<"/users">>, TRUE, resp)
get_sites(resp) == Get("get_sites", <<"/sites">>, TRUE, resp)
get_scenarios(resp) == Get("get_scenarios", <<"/scenarios">>, FALSE, resp)
get_site_settings(site_key, resp) ==
    Get("get_site_settings", <<"/sites/", site_key, "/setting">>, FALSE, resp)
get_eap_data(eap_mac, site_key, resp) ==
    Get("get_eap_data", <<"/sites/", SiteOf(site_key), "/eaps/", eap_mac>>, FALSE, resp)

\* get_devices: pd.DataFrame(result["result"]); a null result gives the empty frame
GetDevicesOutcome(resp) ==
    LET r == makeApiCall("GET", TRUE, resp)
    IN  IF r.kind = "raise" THEN r
        ELSE IF resp.result.shape = "absent" THEN Raise("KeyError")
        ELSE Return(PyFrame(resp.result.rows))

get_devices(site_key, resp) ==
    /\ Exchange("get_devices",
                Request("get_devices", <<"/sites/", SiteOf(site_key), "/devices">>,
                        "GET", Nothing, TRUE),
                resp, GetDevicesOutcome(resp))
    /\ UNCHANGED <<token, issued>>

\* the three PATCH mutations return makeApiCall's result as it is
Patch(op, eap_mac, site_key, body, resp) ==
    /\ Exchange(op,
                Request(op, <<"/sites/", SiteOf(site_key), "/eaps/", eap_mac>>,
                        "PATCH", Some(body), TRUE),
                resp, makeApiCall("PATCH", TRUE, resp))
    /\ UNCHANGED <<token, issued>>

Radio2gBody(radio_status) == [radioSetting2g |-> [radioEnable |-> radio_status]]
Radio5gBody(radio_status) == [radioSetting5g |-> [radioEnable |-> radio_status]]
LedBody(led_status) == [ledSetting |-> led_status]

set_eap_2g_radio(eap_mac, radio_status, site_key, resp) ==
    Patch("set_eap_2g_radio", eap_mac, site_key, Radio2gBody(radio_status), resp)
set_eap_led_status(eap_mac, led_status, site_key, resp) ==
    Patch("set_eap_led_status", eap_mac, site_key, LedBody(led_status), resp)
set_eap_5g_radio(eap_mac, radio_status, site_key, resp) ==
    Patch("set_eap_5g_radio", eap_mac, site_key, Radio5gBody(radio_status), resp)

(***************************************************************************)
(* The environment: what the controller and the network can answer         *)
(***************************************************************************)
RawResponses ==
    {NoResponse} \cup {NonJson(s) : s \in Statuses}
                 \cup {Json(s, <<0, "Success.">>, ObjectResult) : s \in Statuses}

LoginResults == {NoResult, NullResult, ObjectResult} \cup {TokenResult(t) : t \in Tokens}
LoginResponses ==
    {NoResponse, NonJson(200), Json(401, <<-1, "General error.">>, TokenResult("tokA"))}
        \cup {Json(200, <<0, "Success.">>, TokenResult(t)) : t \in Tokens}
        \cup {Json(s, <<-1, "General error.">>, r) :
                  s \in Statuses, r \in LoginResults \ {TokenResult(t) : t \in Tokens}}

DataResponses ==
    {NoResponse, NonJson(200), Json(200, <<0, "Success.">>, ObjectResult)}
        \cup {Json(200, <<-1, "General error.">>, r) : r \in {NoResult, ObjectResult}}

DeviceResponses(n) ==
    {NoResponse, NonJson(200)}
        \cup {Json(200, e, r) : e \in Envelopes, r \in {NoResult, NullResult}}
        \cup {Json(200, <<0, "Success.">>, ListResult(rows)) :
                  rows \in SeqsUpTo(DeviceRecords, n)}

(***************************************************************************)
(* Library use: a caller invoking the methods in any order                 *)
(***************************************************************************)
Idle == pc = "idle"

ClientLogin ==
    /\ Idle
    /\ \E resp \in LoginResponses : login(resp)
    /\ UNCHANGED <<now, tz, logged, mainVars>>

ClientLogout ==
    /\ Idle
    /\ \E resp \in RawResponses : logout(resp)
    /\ UNCHANGED <<now, tz, mainVars>>

ClientIsLogged ==
    /\ Idle
    /\ \E resp \in RawResponses : is_logged(resp)
    /\ UNCHANGED <<now, tz, logged, mainVars>>

ClientGetAdmins ==
    /\ Idle
    /\ \E resp \in DataResponses : get_admins(resp)
    /\ UNCHANGED <<now, tz, logged, mainVars>>

ClientGetSites ==
    /\ Idle
    /\ \E resp \in DataResponses : get_sites(resp)
    /\ UNCHANGED <<now, tz, logged, mainVars>>

ClientGetScenarios ==
    /\ Idle
    /\ \E resp \in DataResponses : get_scenarios(resp)
    /\ UNCHANGED <<now, tz, logged, mainVars>>

ClientGetSiteSettings ==
    /\ Idle
    /\ \E resp \in DataResponses, k \in SiteKeys \ {NoneVal} : get_site_settings(k, resp)
    /\ UNCHANGED <<now, tz, logged, mainVars>>

ClientGetDevices ==
    /\ Idle
    /\ \E resp \in DeviceResponses(1), k \in SiteKeys : get_devices(k, resp)
    /\ UNCHANGED <<now, tz, logged, mainVars>>

ClientGetEapData ==
    /\ Idle
    /\ \E resp \in DataResponses, m \in Macs, k \in SiteKeys : get_eap_data(m, k, resp)
    /\ UNCHANGED <<now, tz, logged, mainVars>>

ClientSetEap2gRadio ==
    /\ Idle
    /\ \E resp \in DataResponses, m \in Macs, b \in BOOLEAN, k \in SiteKeys :
           set_eap_2g_radio(m, b, k, resp)
    /\ UNCHANGED <<now, tz, logged, mainVars>>

ClientSetEapLedStatus ==
    /\ Idle
    /\ \E resp \in DataResponses, m \in Macs, l \in LedStatuses, k \in SiteKeys :
           set_eap_led_status(m, l, k, resp)
    /\ UNCHANGED <<now, tz, logged, mainVars>>

ClientSetEap5gRadio ==
    /\ Idle
    /\ \E resp \in DataResponses, m \in Macs, b \in BOOLEAN, k \in SiteKeys :
           set_eap_5g_radio(m, b, k, resp)
    /\ UNCHANGED <<now, tz, logged, mainVars>>

\* the host clock advances between calls
Tick ==
    /\ now < StartMs + MaxTicks
    /\ now' = now + 1
    /\ UNCHANGED <<tz, apiVars, logged, mainVars>>

(***************************************************************************)
(* enable_radios.main()                                                    *)
(***************************************************************************)
radio_status == ~args.disable
\* led_status with the two values swapped
led_status_swapped == IF ~args.disable THEN 0 ELSE 1
led_status == IF ~args.disable THEN 1 ELSE 0
enabling_str == IF ~args.disable THEN "enabling" ELSE "disabling"

\* a DataFrame has a column when some record had the key; a row without it
\* reads NaN
HasColumn(rows, col) == \E k \in DOMAIN rows : rows[k][col] # Absent
Cell(rows, k, col) == IF rows[k][col] = Absent THEN NaN ELSE rows[k][col]

\* what a mutation request looks like on the wire, without its query string
Wire(req) == [mode |-> req.mode, url |-> req.url, json |-> req.json]

\* Abort replaced by catch-and-continue: the exception is noted and the run
\* goes on to the end
ContinueOnError(exc) ==
    /\ pc' = "done"
    /\ mainExc' = exc

Abort(exc) ==
    /\ pc' = "aborted"
    /\ mainExc' = exc

\* the for statement: the next row, or the end of main()
Advance ==
    IF i < Len(devices)
    THEN /\ i' = i + 1
         /\ pc' = "radio"
    ELSE /\ i' = i
         /\ pc' = "done"

\* api.login()
MainLogin ==
    /\ pc = "login"
    /\ \E resp \in LoginResponses : login(resp)
    /\ IF ret'.kind = "raise" THEN Abort(ret'.exc)
       ELSE pc' = "get_devices" /\ UNCHANGED mainExc
    /\ UNCHANGED <<now, tz, logged, args, devices, i, calls>>

\* devices = api.get_devices(); device_macs = list(devices["mac"])
MainGetDevices ==
    /\ pc = "get_devices"
    /\ \E resp \in DeviceResponses(MaxDevices) : get_devices(NoneVal, resp)
    /\ IF ret'.kind = "raise"
       THEN Abort(ret'.exc) /\ UNCHANGED <<devices, i>>
       ELSE LET rows == ret'.value.resp.result.rows
            IN  IF ~HasColumn(rows, "mac")
                THEN Abort("KeyError") /\ UNCHANGED <<devices, i>>
                ELSE /\ devices' = rows
                     /\ i' = 1
                     /\ pc' = "radio"
                     /\ UNCHANGED mainExc
    /\ UNCHANGED <<now, tz, logged, args, calls>>

\* the loop body up to and including api.set_eap_2g_radio(...)
MainRadio ==
    /\ pc = "radio"
    /\ LET mac_address == Cell(devices, i, "mac")
       IN  IF ~HasColumn(devices, "name")
           THEN /\ Abort("KeyError")
                /\ UNCHANGED <<apiVars, logged, i, calls>>
           ELSE /\ logged' = [level |-> "info",
                              msg |-> <<enabling_str, "radios on",
                                        Cell(devices, i, "name"), mac_address>>]
                /\ \E resp \in DataResponses :
                       set_eap_2g_radio(mac_address, radio_status, NoneVal, resp)
                /\ calls' = Append(calls, Wire(lastReq'))
                /\ IF ret'.kind = "raise" THEN Abort(ret'.exc) /\ UNCHANGED i
                   ELSE IF ~args.noleds THEN pc' = "led" /\ UNCHANGED <<i, mainExc>>
                   ELSE Advance /\ UNCHANGED mainExc
    /\ UNCHANGED <<now, tz, args, devices>>

\* if not args.noleds: api.set_eap_led_status(...)
MainLed ==
    /\ pc = "led"
    /\ logged' = [level |-> "info",
                  msg |-> <<enabling_str, "led on",
                            Cell(devices, i, "name"), Cell(devices, i, "mac")>>]
    /\ \E resp \in DataResponses :
           set_eap_led_status(Cell(devices, i, "mac"), led_status, NoneVal, resp)
    /\ calls' = Append(calls, Wire(lastReq'))
    /\ IF ret'.kind = "raise" THEN Abort(ret'.exc) /\ UNCHANGED i
       ELSE Advance /\ UNCHANGED mainExc
    /\ UNCHANGED <<now, tz, args, devices>>

(***************************************************************************)
(* Specification                                                           *)
(***************************************************************************)
\* OmadaAPI.__init__ has run: no token yet.  The object is then either used
\* as a library (pc = "idle") or driven by enable_radios.main().
Init ==
    /\ token = NoneVal
    /\ issued = NoneVal
    /\ now = StartMs
    /\ tz \in TzOffsets
    /\ lastReq = NoReq
    /\ lastResp = NoResponse
    /\ ret = NoRet
    /\ logged = NoLog
    /\ pc \in {"idle", "login"}
    /\ args \in [disable : BOOLEAN, noleds : BOOLEAN]
    /\ pc = "idle" => args = [disable |-> FALSE, noleds |-> FALSE]
    /\ devices = <<>>
    /\ i = 0
    /\ calls = <<>>
    /\ mainExc = NoneVal

Next ==
    \/ ClientLogin
    \/ ClientLogout
    \/ ClientIsLogged
    \/ ClientGetAdmins
    \/ ClientGetSites
    \/ ClientGetScenarios
    \/ ClientGetSiteSettings
    \/ ClientGetDevices
    \/ ClientGetEapData
    \/ ClientSetEap2gRadio
    \/ ClientSetEapLedStatus
    \/ ClientSetEap5gRadio
    \/ Tick
    \/ MainLogin
    \/ MainGetDevices
    \/ MainRadio
    \/ MainLed

Spec == Init /\ [][Next]_vars

(***************************************************************************)
(* Properties                                                              *)
(***************************************************************************)
TokenCarryingOps ==
    {"get_admins", "get_sites", "get_scenarios", "get_site_settings", "get_devices",
     "get_eap_data", "set_eap_2g_radio", "set_eap_5g_radio", "set_eap_led_status",
     "is_logged"}
SetOps == {"set_eap_2g_radio", "set_eap_5g_radio", "set_eap_led_status"}
LacksToken(resp) == resp.kind = "json" /\ ~HasToken(resp)

\* C1: a login whose response carries a token T returns T and stores it, and
\* every later token-carrying call sends token = T, T being the token of the
\* latest such login.
C1_LoginTokenAttached ==
    /\ (ret.op = "login" /\ HasToken(lastResp)) =>
           /\ ret.kind = "return"
           /\ ret.value.type = "str"
           /\ ret.value.str = lastResp.result.token
           /\ token = lastResp.result.token
    /\ lastReq.op \in TokenCarryingOps =>
           /\ HasParam(lastReq, "token")
           /\ Param(lastReq, "token") = issued

\* C1 witness: after two logins, a status check has sent the second token.
C1_Witness ==
    /\ lastReq.op = "is_logged"
    /\ HasParam(lastReq, "token")
    /\ Param(lastReq, "token") = "tokB"
    /\ issued = "tokB"
    /\ logged.level = "info"

CallsPerDevice == IF args.noleds THEN 1 ELSE 2
ExpectedCall(k) ==
    LET row == ((k - 1) \div CallsPerDevice) + 1
        isRadio == (k - 1) % CallsPerDevice = 0
        mac == IF devices[row].mac = Absent THEN "nan" ELSE devices[row].mac
    IN  [mode |-> "PATCH",
         url |-> <<"https://omadacontroller.local:8043", "/api/v2",
                   "/sites/", "Default", "/eaps/", mac>>,
         json |-> IF isRadio
                  THEN <<[radioSetting2g |-> [radioEnable |-> ~args.disable]]>>
                  ELSE <<[ledSetting |-> IF args.disable THEN 0 ELSE 1]>>]

\* C3: the toggler's mutation calls are, in list order, one 2.4GHz radio
\* PATCH per device with radioEnable = not --disable, each followed, unless
\* --no-leds, by one LED PATCH with ledSetting 1 (enable) or 0 (disable), and
\* nothing else; a run that ends normally has issued all of them.
C3_BatchCallSequence ==
    pc # "idle" =>
        /\ Len(calls) <= CallsPerDevice * Len(devices)
        /\ \A k \in DOMAIN calls : calls[k] = ExpectedCall(k)
        /\ pc = "done" => Len(calls) = CallsPerDevice * Len(devices)

\* C3 witness: --disable over two devices ran to the end with four calls.
C3_Witness ==
    /\ pc = "done"
    /\ args.disable /\ ~args.noleds
    /\ Len(devices) = 2
    /\ devices[1].mac = "AA:BB" /\ devices[2].mac = "CC:DD"
    /\ Len(calls) = 4

C5_LogoutClearsToken ==
    (ret.op = "logout" /\ ret.kind = "return") => token = NoneVal

\* C5 as amended: the token goes from null to set by login and is never
\* cleared: after logout() the stored token is still the one the latest
\* successful login obtained (null only if there was none).
C5_LogoutKeepsToken ==
    ret.op = "logout" => token = issued

\* C5 witness: logout() has returned and the token of the login is still stored.
C5_Witness ==
    /\ ret.op = "logout"
    /\ ret.kind = "return"
    /\ token = "tokA"

C7_LogoutNeverRaisesOnStatus ==
    (ret.op = "logout" /\ lastResp.kind # "neterr") =>
        /\ ret.kind = "return"
        /\ ret.value.type = "NoneType"
        /\ logged.level = (IF lastResp.status = 200 THEN "info" ELSE "warning")

\* C7 witness: a logout answered 401 returned after logging a warning.
C7_Witness ==
    /\ ret.op = "logout"
    /\ lastResp.kind # "neterr"
    /\ lastResp.status = 401
    /\ ret.kind = "return"
    /\ logged.level = "warning"

\* C8: in the toggler an exception of any call ends the run there: main() is
\* aborted as soon as a call has raised, and an aborted run issues no further
\* request.
C8_FailFast ==
    [][ /\ (pc' # "idle" /\ (ret'.kind = "raise" \/ mainExc' # NoneVal)) => pc' = "aborted"
        /\ pc = "aborted" => UNCHANGED <<pc, calls, lastReq, ret>> ]_vars

\* C8 witness: the radio PATCH of the first of two devices raised, LEDs not
\* suppressed, and the run stopped with that single call issued.
C8_Witness ==
    /\ pc = "aborted"
    /\ ret.op = "set_eap_2g_radio"
    /\ ret.kind = "raise"
    /\ ~args.noleds
    /\ Len(devices) = 2
    /\ i = 1
    /\ Len(calls) = 1

\* C9: a mutation call answered with a JSON envelope returns that envelope
\* whatever its errorCode and msg (and HTTP status) are, and the toggler goes
\* on after it.
C9_RejectionIsSuccess ==
    (ret.op \in SetOps /\ lastResp.kind = "json") =>
        /\ ret.kind = "return"
        /\ ret.value.type = "json"
        /\ ret.value.resp = lastResp
        /\ pc # "aborted"

\* C9 witness: the toggler's radio PATCH was rejected with errorCode -1 in an
\* HTTP 200 envelope and the run moved on to the LED PATCH.
C9_Witness ==
    /\ pc = "led"
    /\ ret.op = "set_eap_2g_radio"
    /\ lastResp.kind = "json"
    /\ lastResp.status = 200
    /\ lastResp.errorCode # 0
    /\ ret.kind = "return"

\* C10: the stored token changes only in a login() whose response carries a
\* token, to that token; a login() that fails leaves it as it was.
C10_TokenWrittenOnlyByLogin ==
    [][ /\ token' # token =>
               /\ lastReq'.op = "login"
               /\ ret'.op = "login" /\ ret'.kind = "return"
               /\ HasToken(lastResp')
               /\ token' = lastResp'.result.token
        /\ (ret'.op = "login" /\ ret'.kind = "raise") => token' = token ]_vars

\* C10 witness: a login failed while a token was stored, and it still is.
C10_Witness ==
    /\ ret.op = "login"
    /\ ret.kind = "raise"
    /\ token = "tokB"

====
